---------------------------- MODULE Spec2Model ----------------------------
(***************************************************************************)
(* Model of scripts/result_to_table.py: one pass over the lines of         *)
(* result.csv that fills two nested tables (total_lemmas, verified), then  *)
(* one pass over the naturally sorted case keys that prints one LaTeX row  *)
(* per included key.                                                       *)
(*                                                                         *)
(* A Python str is a sequence of one-character strings, so that split,     *)
(* strip, endswith, isnumeric, int and slicing are computed character by   *)
(* character.  The characters used are those of CodePoints below; "²"      *)
(* (U+00B2) stands for the characters that str.isnumeric accepts and int   *)
(* rejects.                                                                *)
(***************************************************************************)
EXTENDS Integers, Sequences, FiniteSets, TLC

VARIABLES
    pc,              \* "read", "output", "done", or where a ValueError left main()
    line,            \* the loop variable of the first pass
    nread,           \* lines of result.csv consumed so far
    total_lemmas,    \* case -> variant -> int
    verified,        \* case -> variant -> int
    verified_keys,   \* the keys of verified, in insertion order
    todo,            \* what is left of natsorted(verified.keys())
    stdout,          \* the rows printed
    printed,         \* history: the key of each printed row
    total_before,    \* history: total_lemmas when the last line was taken
    verified_before  \* history: verified when the last line was taken

vars == <<pc, line, nread, total_lemmas, verified, verified_keys,
          todo, stdout, printed, total_before, verified_before>>

(***************************************************************************)
(* Characters                                                              *)
(***************************************************************************)
\* The characters of the model with their Unicode code points (the order
\* Python compares str by).
CodePoints ==
    <<
       <<"\n", 10>>, <<" ", 32>>, <<"&", 38>>, <<"+", 43>>, <<",", 44>>, <<"-", 45>>, <<"/", 47>>,
       <<"0", 48>>, <<"1", 49>>, <<"2", 50>>, <<"3", 51>>, <<"4", 52>>, <<"5", 53>>,
       <<"6", 54>>, <<"7", 55>>, <<"8", 56>>, <<"9", 57>>, <<"A", 65>>, <<"B", 66>>,
       <<"C", 67>>, <<"D", 68>>, <<"E", 69>>, <<"F", 70>>, <<"G", 71>>, <<"H", 72>>,
       <<"I", 73>>, <<"J", 74>>, <<"K", 75>>, <<"L", 76>>, <<"M", 77>>, <<"N", 78>>,
       <<"O", 79>>, <<"P", 80>>, <<"Q", 81>>, <<"R", 82>>, <<"S", 83>>, <<"T", 84>>,
       <<"U", 85>>, <<"V", 86>>, <<"W", 87>>, <<"X", 88>>, <<"Y", 89>>, <<"Z", 90>>, <<"\\", 92>>,
       <<"a", 97>>, <<"b", 98>>, <<"c", 99>>, <<"d", 100>>, <<"e", 101>>, <<"f", 102>>,
       <<"g", 103>>, <<"h", 104>>, <<"i", 105>>, <<"j", 106>>, <<"k", 107>>, <<"l", 108>>,
       <<"m", 109>>, <<"n", 110>>, <<"o", 111>>, <<"p", 112>>, <<"q", 113>>, <<"r", 114>>,
       <<"s", 115>>, <<"t", 116>>, <<"u", 117>>, <<"v", 118>>, <<"w", 119>>, <<"x", 120>>,
       <<"y", 121>>, <<"z", 122>>, <<"²", 178>>
    >>

CodePointOf ==
    [c \in {CodePoints[k][1] : k \in 1..Len(CodePoints)} |->
        (CHOOSE p \in {CodePoints[k] : k \in 1..Len(CodePoints)} : p[1] = c)[2]]

\* ord(c)
Ord(c) == CodePointOf[c]

\* str.strip() with no argument removes whitespace from both ends: among
\* the characters of the model, the space and the newline.
Whitespace == {" ", "\n"}

\* Characters c with int(c) defined: the decimal digits.
DecimalChars == {"0", "1", "2", "3", "4", "5", "6", "7", "8", "9"}

\* Characters c with c.isnumeric() true: the decimal digits and, among
\* others, the superscript digits, which int() does not accept.
NumericChars == DecimalChars \cup {"²"}

DigitValue(c) == Ord(c) - 48

(***************************************************************************)
(* str methods                                                             *)
(***************************************************************************)
RECURSIVE LStrip(_)
LStrip(s) ==
    IF s /= <<>> /\ Head(s) \in Whitespace THEN LStrip(Tail(s)) ELSE s

RECURSIVE RStrip(_)
RStrip(s) ==
    IF s /= <<>> /\ s[Len(s)] \in Whitespace
    THEN RStrip(SubSeq(s, 1, Len(s) - 1))
    ELSE s

\* s.strip()
Strip(s) == RStrip(LStrip(s))

\* s.endswith(suffix)
EndsWith(s, suffix) ==
    /\ Len(suffix) <= Len(s)
    /\ SubSeq(s, Len(s) - Len(suffix) + 1, Len(s)) = suffix

\* c in s, for a one-character c
Contains(s, c) == \E k \in 1..Len(s) : s[k] = c

\* s.split(c) for a one-character separator c: always at least one part.
RECURSIVE Split(_, _)
Split(s, c) ==
    IF ~Contains(s, c)
    THEN <<s>>
    ELSE LET k == CHOOSE j \in 1..Len(s) :
                      s[j] = c /\ \A m \in 1..(j - 1) : s[m] /= c
         IN  <<SubSeq(s, 1, k - 1)>> \o Split(SubSeq(s, k + 1, Len(s)), c)

\* s.isnumeric(): non-empty and every character numeric.
IsNumeric(s) == s /= <<>> /\ \A k \in 1..Len(s) : s[k] \in NumericChars

\* Value of a non-empty run of decimal digits.
RECURSIVE DigitsValue(_)
DigitsValue(s) ==
    IF s = <<>> THEN 0
    ELSE 10 * DigitsValue(SubSeq(s, 1, Len(s) - 1)) + DigitValue(s[Len(s)])

IsDigits(s) == s /= <<>> /\ \A k \in 1..Len(s) : s[k] \in DecimalChars

\* int(s) raises ValueError unless s, stripped, is an optional sign followed
\* by decimal digits (the model has no "_", which int() allows between
\* digits).
IntRaises(s) ==
    LET t == Strip(s)
    IN  IF t /= <<>> /\ Head(t) \in {"+", "-"}
        THEN ~IsDigits(Tail(t))
        ELSE ~IsDigits(t)

\* int(s) where it does not raise.
IntValue(s) ==
    LET t == Strip(s)
    IN  IF Head(t) = "-" THEN 0 - DigitsValue(Tail(t))
        ELSE IF Head(t) = "+" THEN DigitsValue(Tail(t))
        ELSE DigitsValue(t)

\* str(n) for an int n, as an f-string formats it.
DigitChars == <<"0", "1", "2", "3", "4", "5", "6", "7", "8", "9">>

RECURSIVE NatToStr(_)
NatToStr(n) ==
    LET d == DigitChars[(n % 10) + 1]
    IN  IF n < 10 THEN <<d>> ELSE NatToStr(n \div 10) \o <<d>>

IntToStr(n) == IF n < 0 THEN <<"-">> \o NatToStr(0 - n) ELSE NatToStr(n)

\* s[:n]
Prefix(s, n) == SubSeq(s, 1, IF Len(s) < n THEN Len(s) ELSE n)

(***************************************************************************)
(* defaultdict(lambda: defaultdict(int))                                   *)
(***************************************************************************)
\* A dict is a function on its set of keys.
EmptyDict == <<>>

\* d[k] = v
SetItem(d, k, v) == [x \in (DOMAIN d) \cup {k} |-> IF x = k THEN v ELSE d[x]]

\* What reading d[k] leaves behind in a defaultdict: a missing key is
\* inserted with the default.
Touch(d, k, default) == IF k \in DOMAIN d THEN d ELSE SetItem(d, k, default)

\* The table after reading t[case][variant]: both levels insert on a miss.
ReadItem(t, case, variant) ==
    LET t1 == Touch(t, case, EmptyDict)
    IN  [t1 EXCEPT ![case] = Touch(t1[case], variant, 0)]

\* The value t[case][variant] reads: a missing entry reads as int() = 0.
ValueAt(t, case, variant) ==
    IF case \in DOMAIN t /\ variant \in DOMAIN t[case]
    THEN t[case][variant]
    ELSE 0

\* t[case][variant] = value: the outer read inserts a missing case, the
\* inner store overwrites.
StoreItem(t, case, variant, value) ==
    LET t1 == Touch(t, case, EmptyDict)
    IN  [t1 EXCEPT ![case] = SetItem(t1[case], variant, value)]

\* Faulty variant of KeysAfter: a key counts as present when a key with
\* the same 7-character label is.
KeysAfterByLabel(keys, k) ==
    IF \E n \in 1..Len(keys) : Prefix(keys[n], 7) = Prefix(k, 7)
    THEN keys
    ELSE Append(keys, k)

\* Insertion order of the keys of a dict after a key is touched.
KeysAfter(keys, k) ==
    IF \E n \in 1..Len(keys) : keys[n] = k THEN keys ELSE Append(keys, k)

(***************************************************************************)
(* natsorted (natsort's default algorithm: unsigned integers, no locale,   *)
(* case-sensitive), followed by Python's stable sort of the keys           *)
(***************************************************************************)
\* Length of the longest run at the head of s whose characters are all
\* digits (isDigit) or all non-digits.
RECURSIVE RunLength(_, _)
RunLength(s, isDigit) ==
    IF s = <<>> \/ ((Head(s) \in DecimalChars) /= isDigit)
    THEN 0
    ELSE 1 + RunLength(Tail(s), isDigit)

\* s cut into its maximal runs of digits and of non-digits; a digit run
\* becomes <<"int", value>>, any other run <<"str", run>>.
RECURSIVE Chunks(_)
Chunks(s) ==
    IF s = <<>> THEN <<>>
    ELSE LET isDigit == Head(s) \in DecimalChars
             n == RunLength(s, isDigit)
             run == SubSeq(s, 1, n)
             chunk == IF isDigit THEN <<"int", DigitsValue(run)>>
                      ELSE <<"str", run>>
         IN  <<chunk>> \o Chunks(SubSeq(s, n + 1, Len(s)))

\* The sort key of s: its chunks, led by an empty string when s starts
\* with a number, so that strings and numbers alternate from a string.
NatKey(s) ==
    LET c == Chunks(s)
    IN  IF c /= <<>> /\ c[1][1] = "int" THEN <<<<"str", <<>>>>>> \o c ELSE c

\* a < b for two str, by code points.
RECURSIVE StrLess(_, _)
StrLess(a, b) ==
    IF b = <<>> THEN FALSE
    ELSE IF a = <<>> THEN TRUE
    ELSE IF Head(a) /= Head(b) THEN Ord(Head(a)) < Ord(Head(b))
    ELSE StrLess(Tail(a), Tail(b))

\* x < y for two chunks of the same kind.
ChunkLess(x, y) ==
    IF x[1] = "int" THEN x[2] < y[2] ELSE StrLess(x[2], y[2])

\* ka < kb for two sort keys, as Python compares tuples.
RECURSIVE KeyLess(_, _)
KeyLess(ka, kb) ==
    IF kb = <<>> THEN FALSE
    ELSE IF ka = <<>> THEN TRUE
    ELSE IF Head(ka) /= Head(kb) THEN ChunkLess(Head(ka), Head(kb))
    ELSE KeyLess(Tail(ka), Tail(kb))

\* Faulty variant of NatLess: plain comparison of the two str.
LexLess(a, b) == StrLess(a, b)

\* a sorts strictly before b.
NatLess(a, b) == KeyLess(NatKey(a), NatKey(b))

\* k put into the sorted list after every element that does not sort
\* after it (the sort is stable).
RECURSIVE InsertSorted(_, _)
InsertSorted(sorted, k) ==
    IF sorted = <<>> THEN <<k>>
    ELSE IF NatLess(k, Head(sorted)) THEN <<k>> \o sorted
    ELSE <<Head(sorted)>> \o InsertSorted(Tail(sorted), k)

\* natsorted(keys)
RECURSIVE NatSorted(_)
NatSorted(keys) ==
    IF keys = <<>> THEN <<>>
    ELSE InsertSorted(NatSorted(SubSeq(keys, 1, Len(keys) - 1)), keys[Len(keys)])

(***************************************************************************)
(* Literals of main()                                                      *)
(***************************************************************************)
\* 'error'
ErrorSuffix == <<"e", "r", "r", "o", "r">>

\* '-a 1 -p false -b true'
BaselineVariant ==
    <<"-", "a", " ", "1", " ", "-", "p", " ", "f", "a", "l", "s", "e", " ", "-", "b", " ", "t", "r", "u", "e">>

\* '-p false -b true'
PFalseVariant ==
    <<"-", "p", " ", "f", "a", "l", "s", "e", " ", "-", "b", " ", "t", "r", "u", "e">>

\* ''
EmptyVariant == <<>>

\* [44, 111]
AllowList == {44, 111}

\* The slice bound of i[:7].
LabelLength == 7

\* The separator and the terminator of the printed row.
Ampersand == <<" ", "&", " ">>

RowEnd == <<" ", "\\", "\\">>

(***************************************************************************)
(* Bound of the model                                                      *)
(***************************************************************************)
\* The longest result.csv considered, in lines.
MaxLines == 3

(***************************************************************************)
(* First pass: the loop body of  for line in f.readlines()                 *)
(***************************************************************************)
\* Faulty variant of IsErrorLine: the last field is not trimmed.
IsErrorLineUntrimmed(parts) == EndsWith(parts[Len(parts)], ErrorSuffix)

\* parts[-1].strip().endswith('error')
IsErrorLine(parts) == EndsWith(Strip(parts[Len(parts)]), ErrorSuffix)

\* Faulty variant of WrongFieldCount: only short lines are turned away.
FewerThanNineFields(parts) == Len(parts) < 9

\* len(parts) != 9
WrongFieldCount(parts) == Len(parts) /= 9

\* parts[6].split('/')
RatioParts(parts) == Split(parts[7], "/")

\* len(current_verified) != 2 or not current_verified[0].strip().isnumeric()
BadRatio(current_verified) ==
    \/ Len(current_verified) /= 2
    \/ ~IsNumeric(Strip(current_verified[1]))

\* The three "continue" tests, in the order of the code.
Skipped(parts) ==
    \/ IsErrorLine(parts)
    \/ WrongFieldCount(parts)
    \/ BadRatio(RatioParts(parts))

\* parts[0].strip() and parts[1].strip()
CaseKey(parts) == Strip(parts[1])

VariantKey(parts) == Strip(parts[2])

\* The text handed to int() for the total (after the slash) and for the
\* verified count (before the slash).
TotalText(current_verified) == Strip(current_verified[2])

VerifiedText(current_verified) == Strip(current_verified[1])

\* Faulty variant of StoreTotal: the number before the slash is stored.
StoreTotalBeforeSlash(t, parts, current_verified) ==
    StoreItem(t, CaseKey(parts), VariantKey(parts),
              IntValue(VerifiedText(current_verified)))

\* total_lemmas[parts[0].strip()][parts[1].strip()] = int(...)
StoreTotal(t, parts, current_verified) ==
    StoreItem(t, CaseKey(parts), VariantKey(parts),
              IntValue(TotalText(current_verified)))

\* Faulty variants of StoreVerified: the count is added to the entry, and
\* the case is not trimmed.
StoreVerifiedSummed(v, parts, current_verified) ==
    StoreItem(v, CaseKey(parts), VariantKey(parts),
              ValueAt(v, CaseKey(parts), VariantKey(parts))
                  + IntValue(VerifiedText(current_verified)))

StoreVerifiedUntrimmedCase(v, parts, current_verified) ==
    StoreItem(v, parts[1], VariantKey(parts),
              IntValue(VerifiedText(current_verified)))

\* verified[parts[0].strip()][parts[1].strip()] = int(...)
StoreVerified(v, parts, current_verified) ==
    StoreItem(v, CaseKey(parts), VariantKey(parts),
              IntValue(VerifiedText(current_verified)))

\* One iteration on line l.  The right-hand side of an assignment is
\* evaluated before its target: a ValueError of the first int() leaves both
\* tables as they were, one of the second int() leaves total_lemmas written.
ReadLine(l) ==
    /\ pc = "read"
    /\ nread < MaxLines
    /\ nread' = nread + 1
    /\ line' = l
    /\ total_before' = total_lemmas
    /\ verified_before' = verified
    /\ UNCHANGED <<todo, stdout, printed>>
    /\ LET parts == Split(l, ",")
           current_verified == RatioParts(parts)
       IN  IF Skipped(parts)
           THEN /\ pc' = "read"
                /\ UNCHANGED <<total_lemmas, verified, verified_keys>>
           ELSE IF IntRaises(TotalText(current_verified))
           THEN /\ pc' = "raised_in_read"
                /\ UNCHANGED <<total_lemmas, verified, verified_keys>>
           ELSE IF IntRaises(VerifiedText(current_verified))
           THEN /\ pc' = "raised_in_read"
                /\ total_lemmas' = StoreTotal(total_lemmas, parts, current_verified)
                /\ UNCHANGED <<verified, verified_keys>>
           ELSE /\ pc' = "read"
                /\ total_lemmas' = StoreTotal(total_lemmas, parts, current_verified)
                /\ verified' = StoreVerified(verified, parts, current_verified)
                /\ verified_keys' = KeysAfter(verified_keys, CaseKey(parts))

\* readlines() is exhausted: natsorted(verified.keys()) is computed once.
EndOfFile ==
    /\ pc = "read"
    /\ pc' = "output"
    /\ todo' = NatSorted(verified_keys)
    /\ UNCHANGED <<line, nread, total_lemmas, verified, verified_keys,
                   stdout, printed, total_before, verified_before>>

(***************************************************************************)
(* Second pass: the loop body of  for i in natsorted(verified.keys())      *)
(***************************************************************************)
\* i.split('/')[0]
SlashPrefix(i) == Split(i, "/")[1]

\* int(i.split('/')[0]) is evaluated, and raises: the total under the
\* baseline variant is 0 and i holds a "/" after a prefix that is no int.
SelectionRaises(i, t) ==
    /\ ValueAt(t, i, BaselineVariant) = 0
    /\ Contains(i, "/")
    /\ IntRaises(SlashPrefix(i))

\* The test of the "continue", where it does not raise.
Excluded(i, t) ==
    /\ ValueAt(t, i, BaselineVariant) = 0
    /\ \/ ~Contains(i, "/")
       \/ IntValue(SlashPrefix(i)) \notin AllowList

\* Faulty variant of RowNumbers: the third number is read under the
\* baseline variant.
RowNumbersBaselineVerified(i, t, v) ==
    <<ValueAt(t, i, BaselineVariant), ValueAt(t, i, EmptyVariant),
      ValueAt(v, i, BaselineVariant), ValueAt(v, i, EmptyVariant)>>

\* The four numbers of the row, in the order of the f-string.
RowNumbers(i, t, v) ==
    <<ValueAt(t, i, BaselineVariant), ValueAt(t, i, EmptyVariant),
      ValueAt(v, i, PFalseVariant), ValueAt(v, i, EmptyVariant)>>

\* i[:7]
Label(i) == Prefix(i, LabelLength)

\* The printed text.
RowText(i, t, v) ==
    LET n == RowNumbers(i, t, v)
    IN  Label(i) \o Ampersand \o IntToStr(n[1]) \o Ampersand \o IntToStr(n[2])
            \o Ampersand \o IntToStr(n[3]) \o Ampersand \o IntToStr(n[4])
            \o RowEnd

\* One iteration on the next key.  Reading a defaultdict inserts the entry
\* it misses: the test reads total_lemmas[i][baseline], the print reads the
\* four entries of the row.
OutputRow ==
    /\ pc = "output"
    /\ todo /= <<>>
    /\ UNCHANGED <<line, nread, total_before, verified_before>>
    /\ LET i == Head(todo)
           tested == ReadItem(total_lemmas, i, BaselineVariant)
       IN  IF SelectionRaises(i, total_lemmas)
           THEN /\ pc' = "raised_in_output"
                /\ total_lemmas' = tested
                /\ UNCHANGED <<verified, verified_keys, todo, stdout, printed>>
           ELSE IF Excluded(i, total_lemmas)
           THEN /\ pc' = "output"
                /\ total_lemmas' = tested
                /\ todo' = Tail(todo)
                /\ UNCHANGED <<verified, verified_keys, stdout, printed>>
           ELSE /\ pc' = "output"
                /\ total_lemmas' = ReadItem(tested, i, EmptyVariant)
                /\ verified' = ReadItem(ReadItem(verified, i, PFalseVariant),
                                        i, EmptyVariant)
                /\ verified_keys' = KeysAfter(verified_keys, i)
                /\ todo' = Tail(todo)
                /\ stdout' = Append(stdout, RowText(i, total_lemmas, verified))
                /\ printed' = Append(printed, i)

\* The loop is over: main() returns.
Finish ==
    /\ pc = "output"
    /\ todo = <<>>
    /\ pc' = "done"
    /\ UNCHANGED <<line, nread, total_lemmas, verified, verified_keys,
                   todo, stdout, printed, total_before, verified_before>>

(***************************************************************************)
(* Inputs: the lines result.csv may hold                                   *)
(***************************************************************************)
\* ','.join(fields)
RECURSIVE Join(_)
Join(fields) ==
    IF Len(fields) = 1 THEN fields[1]
    ELSE fields[1] \o <<",">> \o Join(Tail(fields))

\* A line of nine fields with the case in field 0, the variant in field 1,
\* the ratio in field 6 and the status in field 8.
Line9(case, variant, ratio, status) ==
    Join(<<case, variant, <<>>, <<>>, <<>>, <<>>, ratio, <<>>, status>>)

\* The same line without field 7 (eight fields) and with one more field
\* before the status (ten fields); the ratio stays at index 6.
Line8(case, variant, ratio, status) ==
    Join(<<case, variant, <<>>, <<>>, <<>>, <<>>, ratio, status>>)

Line10(case, variant, ratio, status) ==
    Join(<<case, variant, <<>>, <<>>, <<>>, <<>>, ratio, <<>>, <<>>, status>>)

Ok == <<"o", "k", "\n">>

OkNoNewline == <<"o", "k">>

Errors == <<"e", "r", "r", "o", "r", "s", "\n">>

Error == <<"e", "r", "r", "o", "r", "\n">>

ParseError == <<" ", "p", "a", "r", "s", "e", " ", "e", "r", "r", "o", "r", " ", "\n">>

Case1Foo == <<"1", "/", "f", "o", "o">>

Case44FooPadded == <<" ", "4", "4", "/", "f", "o", "o", " ">>

Case44Foo == <<"4", "4", "/", "f", "o", "o">>

Case45Foo == <<"4", "5", "/", "f", "o", "o">>

CaseAbcFoo == <<"a", "b", "c", "/", "f", "o", "o">>

CaseFoo == <<"f", "o", "o">>

Case2X == <<"2", "/", "x">>

Case10Y == <<"1", "0", "/", "y">>

Case1Z == <<"1", "/", "z">>

Case01Z == <<"0", "1", "/", "z">>

Case111AbcX == <<"1", "1", "1", "/", "a", "b", "c", "X">>

Case111AbcY == <<"1", "1", "1", "/", "a", "b", "c", "Y">>

Ratio3of5 == <<"3", "/", "5">>

Ratio4of5 == <<"4", "/", "5">>

Ratio10of12 == <<" ", "1", "0", " ", "/", " ", "1", "2", " ">>

Ratio0of0 == <<"0", "/", "0">>

RatioAbcOf5 == <<"a", "b", "c", "/", "5">>

Ratio3ofAbc == <<"3", "/", "a", "b", "c">>

Ratio3ofNothing == <<"3", "/">>

RatioNoSlash == <<"3">>

RatioThreeParts == <<"1", "/", "2", "/", "3">>

RatioSuperscript == <<"²", "/", "5">>

Ratio3ofMinus5 == <<"3", "/", "-", "5">>

\* Lines for the record filter: two cases, the three variants the output
\* reads, well-formed and malformed ratios, error markers, field counts.
AcceptedLines ==
    {Line9(c, v, r, Ok) : c \in {Case1Foo, Case44FooPadded},
                          v \in {EmptyVariant, BaselineVariant, PFalseVariant},
                          r \in {Ratio3of5, Ratio4of5}}
        \cup {Line9(Case1Foo, EmptyVariant, Ratio10of12, OkNoNewline),
              Line9(Case1Foo, EmptyVariant, Ratio4of5, Errors),
              Line9(Case1Foo, EmptyVariant, Ratio3ofMinus5, Ok)}

MalformedRatioLines ==
    {Line9(Case1Foo, EmptyVariant, r, Ok) :
        r \in {RatioAbcOf5, Ratio3ofAbc, Ratio3ofNothing, RatioNoSlash,
               RatioThreeParts, RatioSuperscript, <<>>}}

ErrorLines ==
    {Line9(Case1Foo, EmptyVariant, Ratio3of5, Error),
     Line9(Case1Foo, BaselineVariant, Ratio4of5, ParseError),
     Line9(Case1Foo, EmptyVariant, Ratio3ofAbc, Error),
     Line8(Case1Foo, EmptyVariant, Ratio3of5, Error),
     Line10(Case1Foo, EmptyVariant, Ratio3of5, Error)}

FieldCountLines ==
    {Line8(Case1Foo, EmptyVariant, Ratio3of5, Ok),
     Line10(Case1Foo, BaselineVariant, Ratio4of5, Ok),
     <<>>,
     <<"\n">>}

FilterLines ==
    AcceptedLines \cup MalformedRatioLines \cup ErrorLines \cup FieldCountLines

\* Lines for the selection and the order of the rows: well-formed lines of
\* many cases.  A case with lines under the empty variant only has a zero
\* total under the baseline variant.
TableLines ==
    {Line9(c, v, Ratio3of5, Ok) :
        c \in {Case1Z, Case44Foo, Case45Foo, CaseAbcFoo, CaseFoo},
        v \in {EmptyVariant, BaselineVariant}}
        \cup {Line9(c, BaselineVariant, Ratio3of5, Ok) :
                 c \in {Case01Z, Case2X, Case10Y}}
        \cup {Line9(Case111AbcX, EmptyVariant, Ratio3of5, Ok),
              Line9(Case111AbcY, EmptyVariant, Ratio4of5, Ok)}
        \cup {Line9(Case2X, BaselineVariant, Ratio0of0, Ok)}

(***************************************************************************)
(* Specifications                                                          *)
(***************************************************************************)
Init ==
    /\ pc = "read"
    /\ line = <<>>
    /\ nread = 0
    /\ total_lemmas = EmptyDict
    /\ verified = EmptyDict
    /\ verified_keys = <<>>
    /\ todo = <<>>
    /\ stdout = <<>>
    /\ printed = <<>>
    /\ total_before = EmptyDict
    /\ verified_before = EmptyDict

ReadFilterLine == \E l \in FilterLines : ReadLine(l)

ReadTableLine == \E l \in TableLines : ReadLine(l)

Next == ReadFilterLine \/ EndOfFile \/ OutputRow \/ Finish

NextTable == ReadTableLine \/ EndOfFile \/ OutputRow \/ Finish

\* result.csv over FilterLines.
Spec == Init /\ [][Next]_vars

\* result.csv over TableLines.
SpecTable == Init /\ [][NextTable]_vars

(***************************************************************************)
(* Vocabulary of the properties                                            *)
(***************************************************************************)
\* The (case, variant) pairs a table holds.
Pairs(t) == UNION {{<<c, v>> : v \in DOMAIN t[c]} : c \in DOMAIN t}

\* The elements of a list.
Elements(seq) == {seq[n] : n \in 1..Len(seq)}

\* A line has been taken and the program is where that line left it.
AfterALine == nread > 0 /\ pc \in {"read", "raised_in_read"}

\* The fields of the last line taken.
LastParts == Split(line, ",")

\* The last line left both tables as they were.
TablesKept == total_lemmas = total_before /\ verified = verified_before

\* The program is in, or has left, the second pass.
InOutput == pc \in {"output", "done", "raised_in_output"}

\* The candidate keys in the order of the second pass, and those the
\* pass is through with.
SortedKeys == NatSorted(verified_keys)

PassedKeys == {SortedKeys[n] : n \in 1..(Len(SortedKeys) - Len(todo))}

\* Number of rows printed for key k.
RowsOf(k) == Cardinality({n \in 1..Len(printed) : printed[n] = k})

\* The record filter as the specification words it: nine fields, no
\* "error" at the end of the last one, a ratio of two parts, both numeric
\* after trimming.
SpecifiedAccepts(l) ==
    LET parts == Split(l, ",")
    IN  /\ Len(parts) = 9
        /\ ~EndsWith(Strip(parts[9]), <<"e", "r", "r", "o", "r">>)
        /\ LET ratio == Split(parts[7], "/")
           IN  /\ Len(ratio) = 2
               /\ IsNumeric(Strip(ratio[1]))
               /\ IsNumeric(Strip(ratio[2]))

\* A line of nine fields, without the error marker, whose ratio is "v/t"
\* with v and t decimal numbers.
WellFormed(l) ==
    LET parts == Split(l, ",")
    IN  /\ Len(parts) = 9
        /\ ~EndsWith(Strip(parts[9]), <<"e", "r", "r", "o", "r">>)
        /\ LET ratio == Split(parts[7], "/")
           IN  /\ Len(ratio) = 2
               /\ IsDigits(Strip(ratio[1]))
               /\ IsDigits(Strip(ratio[2]))

\* The pair and the two counts a line carries.
PairOf(l) == LET parts == Split(l, ",") IN <<Strip(parts[1]), Strip(parts[2])>>

BeforeSlash(l) == LET parts == Split(l, ",") IN Strip(Split(parts[7], "/")[1])

AfterSlash(l) == LET parts == Split(l, ",") IN Strip(Split(parts[7], "/")[2])

\* The inclusion rule as the specification words it.
SpecifiedIncluded(i) ==
    \/ ValueAt(total_lemmas, i, BaselineVariant) /= 0
    \/ /\ Contains(i, "/")
       /\ ~IntRaises(Split(i, "/")[1])
       /\ IntValue(Split(i, "/")[1]) \in {44, 111}

\* The row the specification gives key i.
SpecifiedRow(i) ==
    Prefix(i, 7)
        \o <<" ", "&", " ">> \o IntToStr(ValueAt(total_lemmas, i, BaselineVariant))
        \o <<" ", "&", " ">> \o IntToStr(ValueAt(total_lemmas, i, EmptyVariant))
        \o <<" ", "&", " ">> \o IntToStr(ValueAt(verified, i, PFalseVariant))
        \o <<" ", "&", " ">> \o IntToStr(ValueAt(verified, i, EmptyVariant))
        \o <<" ", "\\", "\\">>

\* a comes before b in natural order: runs of digits compare by value, a
\* digit comes before any other character, other characters compare by
\* code point, and a proper prefix comes first.
RECURSIVE NaturalBefore(_, _)
NaturalBefore(a, b) ==
    IF b = <<>> THEN FALSE
    ELSE IF a = <<>> THEN TRUE
    ELSE LET da == Head(a) \in DecimalChars
             db == Head(b) \in DecimalChars
         IN  IF da /\ db
             THEN LET na == RunLength(a, TRUE)
                      nb == RunLength(b, TRUE)
                      va == DigitsValue(SubSeq(a, 1, na))
                      vb == DigitsValue(SubSeq(b, 1, nb))
                  IN  IF va /= vb THEN va < vb
                      ELSE NaturalBefore(SubSeq(a, na + 1, Len(a)),
                                         SubSeq(b, nb + 1, Len(b)))
             ELSE IF da /= db THEN da
             ELSE IF Head(a) /= Head(b) THEN Ord(Head(a)) < Ord(Head(b))
             ELSE NaturalBefore(Tail(a), Tail(b))

(***************************************************************************)
(* Properties                                                              *)
(***************************************************************************)
\* C1: a line the record filter does not accept (nine fields, no error
\* marker, a ratio of exactly two parts that are both numeric after
\* trimming) is processed without any error and leaves both tables
\* unchanged.
C1_UnacceptedLineIsDiscarded ==
    (AfterALine /\ ~SpecifiedAccepts(line)) => (pc = "read" /\ TablesKept)

\* C2: in the output pass no key raises, and a key the pass is through
\* with has a row if and only if its baseline total is not 0 or it holds
\* a "/" after the integer 44 or 111.
C2_SelectionRule ==
    InOutput =>
        /\ pc /= "raised_in_output"
        /\ \A k \in PassedKeys : (RowsOf(k) > 0) <=> SpecifiedIncluded(k)

\* C3: last write wins.  A line that is stored sets the two entries of
\* its own pair to its own counts, whatever they held, and leaves every
\* other entry as it was; a line that is skipped leaves every entry as it
\* was.  So each entry holds the counts of the last stored line of its pair.
C3_LastWriteWins ==
    (pc = "read" /\ nread > 0) =>
        IF Skipped(LastParts)
        THEN TablesKept
        ELSE LET p == PairOf(line)
             IN  /\ p \in Pairs(total_lemmas) \cap Pairs(verified)
                 /\ total_lemmas[p[1]][p[2]] = IntValue(AfterSlash(line))
                 /\ verified[p[1]][p[2]] = IntValue(BeforeSlash(line))
                 /\ Pairs(total_lemmas) = Pairs(total_before) \cup {p}
                 /\ Pairs(verified) = Pairs(verified_before) \cup {p}
                 /\ \A r \in Pairs(total_before) \ {p} :
                        total_lemmas[r[1]][r[2]] = total_before[r[1]][r[2]]
                 /\ \A r \in Pairs(verified_before) \ {p} :
                        verified[r[1]][r[2]] = verified_before[r[1]][r[2]]

\* A stored line has replaced different counts of its pair, next to an
\* entry of another pair.
C3_Witness ==
    /\ pc = "read" /\ nread > 0
    /\ ~Skipped(LastParts)
    /\ LET p == PairOf(line)
       IN  /\ p \in Pairs(verified_before)
           /\ verified_before[p[1]][p[2]] /= verified[p[1]][p[2]]
           /\ verified[p[1]][p[2]] = IntValue(BeforeSlash(line))
           /\ Pairs(verified_before) \ {p} /= {}

\* C4: a well-formed line (nine fields, no error marker, ratio "v/t" of
\* two decimal numbers) is stored without an error: the number after the
\* slash is its total and the number before the slash its verified count,
\* under (trimmed field 0, trimmed field 1); the empty variant is a key
\* like any other, and "3/5" gives total 5 and verified 3.
C4_StoresTotalAfterSlash ==
    (AfterALine /\ WellFormed(line)) =>
        LET p == PairOf(line)
        IN  /\ pc = "read"
            /\ p \in Pairs(total_lemmas) \cap Pairs(verified)
            /\ total_lemmas[p[1]][p[2]] = DigitsValue(AfterSlash(line))
            /\ verified[p[1]][p[2]] = DigitsValue(BeforeSlash(line))
            /\ (LastParts[7] = <<"3", "/", "5">>) =>
                   /\ total_lemmas[p[1]][p[2]] = 5
                   /\ verified[p[1]][p[2]] = 3
            /\ \A r \in Pairs(total_before) \ {p} :
                   r[1] = p[1] => total_lemmas[r[1]][r[2]] = total_before[r[1]][r[2]]

\* "3/5" has been stored under the empty variant of a case that keeps
\* other counts under the baseline variant.
C4_Witness ==
    /\ AfterALine /\ WellFormed(line)
    /\ LastParts[7] = <<"3", "/", "5">>
    /\ LET p == PairOf(line)
       IN  /\ p[2] = <<>>
           /\ <<p[1], BaselineVariant>> \in Pairs(verified)
           /\ verified[p[1]][BaselineVariant] = 4
           /\ verified[p[1]][<<>>] = 3
           /\ total_lemmas[p[1]][<<>>] = 5

\* C5: a line that does not split into exactly nine fields raises no
\* error, changes neither table and adds no candidate key.
C5_FieldCountGate ==
    (AfterALine /\ Len(LastParts) /= 9) =>
        /\ pc = "read"
        /\ TablesKept
        /\ Elements(verified_keys) = DOMAIN verified_before

\* A line of eight or ten fields with a well-formed ratio at index 6 and
\* no error marker went by filled tables.
C5_Witness ==
    /\ AfterALine
    /\ Len(LastParts) \in {8, 10}
    /\ LastParts[7] \in {<<"3", "/", "5">>, <<"4", "/", "5">>}
    /\ ~EndsWith(Strip(LastParts[Len(LastParts)]), <<"e", "r", "r", "o", "r">>)
    /\ Pairs(total_lemmas) /= {}
    /\ TablesKept

\* C6: each printed row is the first 7 characters of its key, then
\* total[baseline], total[""], verified["-p false -b true"] and
\* verified[""], an entry never written reading as 0; the two-line example
\* prints the single row "1/foo & 5 & 5 & 0 & 3 \\".
C6_RowColumns ==
    /\ Len(stdout) = Len(printed)
    /\ \A n \in 1..Len(stdout) : stdout[n] = SpecifiedRow(printed[n])
    /\ ( /\ pc = "done"
         /\ nread = 2
         /\ line = Line9(Case1Foo, BaselineVariant, Ratio4of5, Ok)
         /\ total_before = StoreItem(EmptyDict, Case1Foo, EmptyVariant, 5)
         /\ verified_before = StoreItem(EmptyDict, Case1Foo, EmptyVariant, 3) )
       => stdout = <<<<"1", "/", "f", "o", "o", " ", "&", " ", "5", " ", "&", " ", "5", " ", "&", " ", "0", " ", "&", " ", "3", " ", "\\", "\\">>>>

\* The run of the two-line example has ended with its one row.
C6_Witness ==
    /\ pc = "done"
    /\ nread = 2
    /\ line = Line9(Case1Foo, BaselineVariant, Ratio4of5, Ok)
    /\ total_before = StoreItem(EmptyDict, Case1Foo, EmptyVariant, 5)
    /\ verified_before = StoreItem(EmptyDict, Case1Foo, EmptyVariant, 3)
    /\ verified[Case1Foo][BaselineVariant] = 4
    /\ Len(stdout) = 1

\* C7: rows come out in natural order of their full keys: no row is
\* printed after the row of a key that comes after its own; 2/x, 10/y and
\* 1/z come out as 1/z, 2/x, 10/y.
C7_NaturalOrder ==
    /\ \A m, n \in 1..Len(printed) :
           NaturalBefore(printed[m], printed[n]) => m < n
    /\ (pc = "done" /\ Elements(printed) = {Case2X, Case10Y, Case1Z})
           => printed = <<Case1Z, Case2X, Case10Y>>

\* The lines came as 2/x, 10/y, 1/z and the rows as 1/z, 2/x, 10/y.
C7_Witness ==
    /\ pc = "done"
    /\ verified_keys = <<Case2X, Case10Y, Case1Z>>
    /\ printed = <<Case1Z, Case2X, Case10Y>>

\* C8: a line whose last field, trimmed, ends with "error" raises no
\* error and changes neither table, whatever its number of fields and its
\* ratio.
C8_ErrorMarkerGate ==
    (AfterALine
        /\ EndsWith(Strip(LastParts[Len(LastParts)]), <<"e", "r", "r", "o", "r">>))
    => (pc = "read" /\ TablesKept)

\* A nine-field line with a well-formed ratio and the error marker before
\* the newline went by filled tables.
C8_Witness ==
    /\ AfterALine
    /\ Len(LastParts) = 9
    /\ LastParts[7] \in {<<"3", "/", "5">>, <<"4", "/", "5">>}
    /\ LastParts[9] \in {Error, ParseError}
    /\ Pairs(total_lemmas) /= {}
    /\ TablesKept

\* C9: between lines the two tables hold the same (case, variant) pairs,
\* and every candidate key of the output pass is a key of total_lemmas.
C9_SamePairs ==
    /\ pc = "read" =>
           /\ Pairs(total_lemmas) = Pairs(verified)
           /\ DOMAIN total_lemmas = DOMAIN verified
    /\ InOutput => Elements(SortedKeys) \subseteq DOMAIN total_lemmas

\* Lines of two cases, one with a padded field 0, have been stored.
C9_Witness ==
    /\ pc = "read"
    /\ Cardinality(DOMAIN verified) = 2
    /\ Cardinality(Pairs(verified)) = 3
    /\ Case44Foo \in DOMAIN total_lemmas

\* C10: a key the output pass is through with has one row if it passes
\* the inclusion rule and none otherwise, and no other key has a row; the
\* row carries the counts of its own full key behind the 7-character
\* label; the reads of the pass leave the candidate keys as they were.
C10_OneRowPerKey ==
    InOutput =>
        LET sorted == SortedKeys
            passed == {sorted[n] : n \in 1..(Len(sorted) - Len(todo))}
        IN  /\ \A k \in passed :
                   RowsOf(k) = IF SpecifiedIncluded(k) THEN 1 ELSE 0
            /\ Elements(printed) \subseteq passed
            /\ \A n \in 1..Len(printed) : stdout[n] = SpecifiedRow(printed[n])
            /\ Elements(verified_keys) = DOMAIN verified
            /\ Len(todo) <= Len(sorted)
            /\ todo = SubSeq(sorted, Len(sorted) - Len(todo) + 1, Len(sorted))
            /\ Len(sorted) = Cardinality(DOMAIN verified)

\* 111/abcX and 111/abcY each have a row of their own: the same label,
\* different counts.
C10_Witness ==
    /\ pc = "done"
    /\ printed = <<Case111AbcX, Case111AbcY>>
    /\ Prefix(stdout[1], 7) = Prefix(stdout[2], 7)
    /\ stdout[1] /= stdout[2]

====
